---- MODULE Spec2Model ----
(***************************************************************************)
(* A model of the HTN planner of htn/Planner.h, driven the way main.cpp    *)
(* drives it: a caller owns a DinnerState, calls findPlan on a root task   *)
(* of a domain with a StdoutPlannerTrace, and gets an optional<Plan> back. *)
(*                                                                         *)
(* The C++ call stack is explicit.  Every call of a task's operator(), of  *)
(* null_action, and of an instantiation of Domain::methods / Domain::tasks *)
(* is a frame; a State passed by reference is an index into `cells`, a     *)
(* State passed by value is a fresh cell.                                  *)
(***************************************************************************)
EXTENDS Integers, Sequences, FiniteSets, TLC

(***************************************************************************)
(* Bounds                                                                  *)
(***************************************************************************)
\* the caller's actor_cash (an int) is drawn from {-10, 0, 10, ..., 10 * MaxCashUnits}
MaxCashUnits == 6

(***************************************************************************)
(* DinnerState (main.cpp) and the expressions the domain's macros use      *)
(***************************************************************************)
DinnerState ==
    [actor_is_hungry : BOOLEAN, actor_can_cook : BOOLEAN,
     actor_cash : {10 * u : u \in -1..MaxCashUnits},
     food_in_fridge : BOOLEAN, dishes : BOOLEAN]

\* _variable(cost, 20) of order_takeout
cost == 20

\* the EXPR of a _precondition(EXPR), by name
Guard(id, state) ==
    CASE id = "cash_ge_cost"   -> state.actor_cash >= cost
      [] id = "can_cook"       -> state.actor_can_cook
      [] id = "food_in_fridge" -> state.food_in_fridge
      [] id = "dishes"         -> state.dishes
      [] id = "is_hungry"      -> state.actor_is_hungry

\* the EXPR of an _operation(EXPR), by name
Apply(id, state) ==
    CASE id = "pay_cost" -> [state EXCEPT !.actor_cash = @ - cost]
      [] id = "cook"     -> [state EXCEPT !.food_in_fridge = FALSE, !.dishes = TRUE]
      [] id = "eat"      -> [state EXCEPT !.actor_is_hungry = FALSE]
      [] id = "wash"     -> [state EXCEPT !.dishes = FALSE]

Pre(id) == [stmt |-> "precondition", id |-> id]
Op(id)  == [stmt |-> "operation", id |-> id]

\* a task declared with _begin(NAME) ... _end: its statements in order and
\* the macro that ends it
PrimitiveTask(body, prim) == [body |-> body, kind |-> "primitive", prim |-> prim, kids |-> <<>>]
MethodsTask(body, kids)   == [body |-> body, kind |-> "methods", prim |-> "", kids |-> kids]
TasksTask(body, kids)     == [body |-> body, kind |-> "tasks", prim |-> "", kids |-> kids]

\* the tasks of DinnerDomain, main.cpp
DinnerDomain ==
    [order_takeout |-> PrimitiveTask(<<Pre("cash_ge_cost"), Op("pay_cost")>>, "order_takeout"),
     cook_dinner   |-> PrimitiveTask(<<Pre("can_cook"), Pre("food_in_fridge"), Op("cook")>>, "cook_dinner"),
     eat_dinner    |-> PrimitiveTask(<<Op("eat")>>, "eat_dinner"),
     wash_dishes   |-> PrimitiveTask(<<Pre("dishes"), Op("wash")>>, "wash_dishes"),
     get_dinner    |-> MethodsTask(<<>>, <<"cook_dinner", "order_takeout">>),
     clean_up      |-> MethodsTask(<<>>, <<"wash_dishes", "null_action">>),
     have_dinner   |-> TasksTask(<<Pre("is_hungry")>>, <<"get_dinner", "eat_dinner", "clean_up">>),
     watch_tv      |-> PrimitiveTask(<<>>, "watch_tv"),
     do_something  |-> MethodsTask(<<>>, <<"have_dinner", "watch_tv">>)]

(***************************************************************************)
(* Further tasks written with the same macros over the same state and      *)
(* primitives.  Planner.h is a library: the domain is its input, and these *)
(* give it the shapes DinnerDomain lacks (a sequence nested in a sequence, *)
(* one-element _methods and _tasks, three alternatives, sequences that     *)
(* fail at their second and third sub-task, and tasks that put an          *)
(* _operation before a _precondition, a _methods or a _tasks).             *)
(***************************************************************************)
ProbeDomain ==
    [prepare_meal   |-> TasksTask(<<>>, <<"cook_dinner", "eat_dinner">>),
     evening        |-> TasksTask(<<>>, <<"prepare_meal", "clean_up">>),
     snack          |-> TasksTask(<<>>, <<"order_takeout">>),
     snack_and_eat  |-> TasksTask(<<>>, <<"snack", "eat_dinner", "order_takeout">>),
     only_cook      |-> MethodsTask(<<>>, <<"cook_dinner">>),
     fallbacks      |-> MethodsTask(<<>>, <<"cook_dinner", "order_takeout", "watch_tv">>),
     cook_twice     |-> TasksTask(<<>>, <<"cook_dinner", "cook_dinner">>),
     three_orders   |-> TasksTask(<<>>, <<"order_takeout", "order_takeout", "order_takeout">>),
     feast          |-> TasksTask(<<>>, <<"get_dinner", "three_orders">>),
     impulse_buy    |-> PrimitiveTask(<<Op("pay_cost"), Pre("cash_ge_cost")>>, "order_takeout"),
     pay_then_cook  |-> MethodsTask(<<Op("pay_cost")>>, <<"cook_dinner">>),
     cover_charge   |-> MethodsTask(<<Op("pay_cost")>>, <<"cook_dinner", "watch_tv">>),
     spree          |-> MethodsTask(<<Op("pay_cost")>>, <<"pay_then_cook">>),
     night_out      |-> MethodsTask(<<>>, <<"spree", "order_takeout">>),
     dine_or_order  |-> MethodsTask(<<>>, <<"impulse_buy", "pay_then_cook", "order_takeout">>),
     pay_then_meal  |-> TasksTask(<<Op("pay_cost")>>, <<"eat_dinner", "cook_dinner">>),
     treat          |-> TasksTask(<<>>, <<"impulse_buy">>),
     long_evening   |-> MethodsTask(<<>>, <<"cook_twice", "have_dinner", "watch_tv">>),
     meal_or_tv     |-> MethodsTask(<<>>, <<"pay_then_meal", "cook_twice", "watch_tv">>)]

Domain == DinnerDomain @@ ProbeDomain

TaskNames == DOMAIN Domain

(***************************************************************************)
(* optional<Plan> (optional.h); Plan is std::vector<Primitive>             *)
(***************************************************************************)
\* optional<Plan>(): m_condition false, m_value a default (empty) Plan
NoPlan == [ok |-> FALSE, plan |-> <<>>]

\* make_optional(v)
make_optional(v) == [ok |-> TRUE, plan |-> v]

\* Domain::primitive(func, trace): make_optional(Plan({func}))
primitive(func) == make_optional(<<func>>)

\* a slip: the rest of the sequence is put in front of the first sub-task's plan
JoinPlans_Reversed(plan, tail_plan) == tail_plan \o plan

\* std::copy(cbegin(tail_plan), cend(tail_plan), back_inserter(plan))
JoinPlans(plan, tail_plan) == plan \o tail_plan


(***************************************************************************)
(* State                                                                   *)
(***************************************************************************)
VARIABLES
    pc,          \* where main() is: "start", "planning" (inside findPlan), "done"
    root,        \* RootAction, the template argument of findPlan
    callerState, \* main()'s DinnerState `state`
    cells,       \* the State objects of the call in progress: cells[1] is findPlan's
                 \* by-value parameter, the others are the by-value parameters of
                 \* tasks<A1,A2,...>; once findPlan has returned, cells[1] keeps the
                 \* value its parameter had at the return
    stack,       \* the call stack under findPlan, innermost frame last
    ret,         \* the optional<Plan> the callee that just returned has handed to its caller
    result,      \* the optional<Plan> findPlan returned
    m_contexts,  \* StdoutPlannerTrace::m_contexts
    log          \* history: the calls the engine made on the PlannerTrace, in order

vars == <<pc, root, callerState, cells, stack, ret, result, m_contexts, log>>

\* a frame of the call stack.  fn: which function; name: the task (for methods/tasks
\* frames, the task whose _methods/_tasks instantiated it); at: position in the
\* function; i: index of the next statement of a task body; sref: the cell `state`
\* refers to; own: `state` is this frame's own by-value copy; old_state: the
\* task's local of that name (methods/tasks frames hold the reference to it);
\* acts: the template arguments <Action1, Action2, Actions...>; plan: the local
\* `plan` of tasks<A1,A2,...> once Action1 succeeded.
\* History fields: entry, the state at the task's pushContext; headOut, the state
\* at the end of Action1's decomposition.
Frame(fn, name, sref, own, old_state, acts) ==
    [fn |-> fn, name |-> name, at |-> "call", i |-> 1, sref |-> sref, own |-> own,
     old_state |-> old_state, acts |-> acts, plan |-> <<>>,
     entry |-> old_state, headOut |-> old_state]

\* a default-constructed DinnerState (the member initialisers of main.cpp)
DefaultState ==
    [actor_is_hungry |-> FALSE, actor_can_cook |-> FALSE, actor_cash |-> 0,
     food_in_fridge |-> FALSE, dishes |-> FALSE]

\* no return value pending
NoRet == [set |-> FALSE, ok |-> FALSE, plan |-> <<>>, out |-> DefaultState]

\* a returned optional<Plan>; out (history) is the state at the end of the
\* decomposition the plan came from, for a failure the state left behind
Returned(opt, out) == [set |-> TRUE, ok |-> opt.ok, plan |-> opt.plan, out |-> out]

top == stack[Len(stack)]
Front(s) == SubSeq(s, 1, Len(s) - 1)
Last(s) == s[Len(s)]
SetTop(f) == [stack EXCEPT ![Len(stack)] = f]

\* the value of the frame f's `state`
StateOf(f) == cells[f.sref]

\* the innermost task being evaluated (history, for the log)
RECURSIVE InnermostTask(_)
InnermostTask(s) ==
    IF s = <<>> THEN ""
    ELSE IF Last(s).fn = "task" THEN Last(s).name ELSE InnermostTask(Front(s))

TaskDepth(s) == Cardinality({k \in 1..Len(s) : s[k].fn = "task"})

\* one call on the PlannerTrace.  ev: the member called; name, state: its
\* arguments (for fail: the m_contexts entry StdoutPlannerTrace::fail prints);
\* line: the source line of the PLANNER_TRACE_* use; ok, plan (history): for
\* popContext and end, the optional<Plan> being returned; task, depth (history).
Event(ev, name, state, line, opt) ==
    [ev |-> ev, name |-> name, state |-> state, line |-> line,
     ok |-> opt.ok, plan |-> opt.plan,
     task |-> InnermostTask(stack), depth |-> TaskDepth(stack)]

(***************************************************************************)
(* StdoutPlannerTrace                                                      *)
(***************************************************************************)
\* pushContext: m_contexts.emplace_back(make_pair(context, state))
pushContext(contexts, context, state) == Append(contexts, <<context, state>>)

\* popContext: m_contexts.pop_back()
popContext(contexts) == Front(contexts)

\* primitive: m_contexts.emplace_back(make_pair(name, state))
tracePrimitive(contexts, name, state) == Append(contexts, <<name, state>>)

\* the fail event as StdoutPlannerTrace::fail reports it: *m_contexts.rbegin()
FailEvent(contexts, line) ==
    Event("fail", Last(contexts)[1], Last(contexts)[2], line, NoPlan)

(***************************************************************************)
(* Calls and returns                                                       *)
(***************************************************************************)
\* Action()(state, trace): a task's operator() or null_action's, on the cell sref
CallAction(action, sref) ==
    IF action = "null_action"
    THEN Frame("null_action", action, sref, FALSE, cells[sref], <<>>)
    ELSE Frame("task", action, sref, FALSE, cells[sref], <<>>)

\* tasks<acts...>(state, old_state, trace): by value for two or more template
\* arguments (State state), by reference for one (State& state)
TasksByValue(acts) == Len(acts) >= 2

\* the cells after a frame returns: its by-value `state` is destroyed
CellsAfterReturn(f, cs) == IF f.own THEN Front(cs) ELSE cs

Init ==
    /\ pc = "start"
    /\ root \in TaskNames
    /\ callerState \in DinnerState
    /\ cells = <<>>
    /\ stack = <<>>
    /\ ret = NoRet
    /\ result = NoPlan
    /\ m_contexts = <<>>
    /\ log = <<>>


(***************************************************************************)
(* findPlan                                                                *)
(***************************************************************************)
\* findPlan(state, trace) is entered: `state` is a copy of the caller's;
\* PLANNER_TRACE_BEGIN; RootAction()(state, trace) is called
FindPlanCall ==
    /\ pc = "start"
    /\ pc' = "planning"
    /\ cells' = <<callerState>>
    /\ log' = Append(log, Event("begin", "", callerState, 302, NoPlan))
    /\ stack' = <<Frame("task", root, 1, FALSE, callerState, <<>>)>>
    /\ UNCHANGED <<root, callerState, ret, result, m_contexts>>

\* a slip: findPlan declared with State& state, so the search works on the caller's object
CallerStateAfter_Alias(caller, working) == working

\* what the caller's `state` is after findPlan returned: findPlan took a copy
CallerStateAfter(caller, working) == caller

\* RootAction returned: PLANNER_TRACE_END; return plan
FindPlanReturn ==
    /\ pc = "planning"
    /\ stack = <<>>
    /\ ret.set
    /\ pc' = "done"
    /\ result' = [ok |-> ret.ok, plan |-> ret.plan]
    /\ log' = Append(log, Event("end", "", cells[1], 304, ret))
    /\ callerState' = CallerStateAfter(callerState, cells[1])
    /\ UNCHANGED <<root, cells, stack, ret, m_contexts>>

(***************************************************************************)
(* A task's operator(), macro by macro                                     *)
(***************************************************************************)
InTask == pc = "planning" /\ stack # <<>> /\ top.fn = "task"
task == Domain[top.name]
AtStatement(kind) ==
    /\ InTask /\ top.at = "body"
    /\ top.i <= Len(task.body) /\ task.body[top.i].stmt = kind
AtEnd(kind) ==
    /\ InTask /\ top.at = "body"
    /\ top.i > Len(task.body) /\ task.kind = kind

\* a slip: popContext called by hand before `return plan`, and forgotten on
\* the returns that report a failure
ReturnFromTask_NoPopOnFailure(contexts, events, opt, out) ==
    /\ m_contexts' = IF opt.ok THEN popContext(contexts) ELSE contexts
    /\ log' = log \o events \o
              (IF opt.ok THEN <<Event("pop", top.name, StateOf(top), 40, opt)>> ELSE <<>>)
    /\ stack' = Front(stack)
    /\ ret' = Returned(opt, out)

\* a `return` of the task on top of the stack: ~AutoContext calls popContext
\* after the events the task emitted on the way; the frame is gone
ReturnFromTask(contexts, events, opt, out) ==
    /\ m_contexts' = popContext(contexts)
    /\ log' = log \o events \o <<Event("pop", top.name, StateOf(top), 40, opt)>>
    /\ stack' = Front(stack)
    /\ ret' = Returned(opt, out)

\* _begin(NAME): PLANNER_TRACE_CONTEXT(trace, #NAME, state)
Begin ==
    /\ InTask /\ top.at = "call"
    /\ m_contexts' = pushContext(m_contexts, top.name, StateOf(top))
    /\ log' = Append(log, Event("push", top.name, StateOf(top), 259, NoPlan))
    /\ stack' = SetTop([top EXCEPT !.at = "body", !.i = 1, !.entry = StateOf(top)])
    /\ UNCHANGED <<pc, root, callerState, cells, ret, result>>

\* a slip: a failed precondition returns without PLANNER_TRACE_FAIL
Precondition_NoFail ==
    /\ AtStatement("precondition")
    /\ IF Guard(task.body[top.i].id, StateOf(top))
       THEN /\ stack' = SetTop([top EXCEPT !.i = @ + 1])
            /\ UNCHANGED <<m_contexts, log, ret>>
       ELSE ReturnFromTask(m_contexts, <<>>, NoPlan, StateOf(top))
    /\ UNCHANGED <<pc, root, callerState, cells, result>>

\* _precondition(EXPR): if (!(EXPR)) { PLANNER_TRACE_FAIL(trace); return optional<Plan>(); }
Precondition ==
    /\ AtStatement("precondition")
    /\ IF Guard(task.body[top.i].id, StateOf(top))
       THEN /\ stack' = SetTop([top EXCEPT !.i = @ + 1])
            /\ UNCHANGED <<m_contexts, log, ret>>
       ELSE ReturnFromTask(m_contexts, <<FailEvent(m_contexts, 267)>>, NoPlan, StateOf(top))
    /\ UNCHANGED <<pc, root, callerState, cells, result>>

\* _operation(EXPR): { EXPR; }
Operation ==
    /\ AtStatement("operation")
    /\ cells' = [cells EXCEPT ![top.sref] = Apply(task.body[top.i].id, @)]
    /\ stack' = SetTop([top EXCEPT !.i = @ + 1])
    /\ UNCHANGED <<pc, root, callerState, ret, result, m_contexts, log>>

\* _primitive(PRIMITIVE): PLANNER_TRACE_PRIMITIVE(trace, #PRIMITIVE, state);
\* return primitive(PRIMITIVE, trace);
Primitive ==
    /\ AtEnd("primitive")
    /\ ReturnFromTask(tracePrimitive(m_contexts, task.prim, StateOf(top)),
                      <<Event("primitive", task.prim, StateOf(top), 288, NoPlan)>>,
                      primitive(task.prim), StateOf(top))
    /\ UNCHANGED <<pc, root, callerState, cells, result>>

\* a slip: old_state captured by _begin, before the task's own operations
Methods_SnapshotAtEntry ==
    /\ AtEnd("methods")
    /\ stack' = Append(SetTop([top EXCEPT !.at = "dispatched", !.old_state = top.entry]),
                       Frame("methods", top.name, top.sref, FALSE, top.entry, task.kids))
    /\ UNCHANGED <<pc, root, callerState, cells, ret, result, m_contexts, log>>

\* _methods(...): State old_state = state; methods<__VA_ARGS__>(state, old_state, trace) is called
Methods ==
    /\ AtEnd("methods")
    /\ stack' = Append(SetTop([top EXCEPT !.at = "dispatched", !.old_state = StateOf(top)]),
                       Frame("methods", top.name, top.sref, FALSE, StateOf(top), task.kids))
    /\ UNCHANGED <<pc, root, callerState, cells, ret, result, m_contexts, log>>

\* _tasks(...): State old_state = state; tasks<__VA_ARGS__>(state, old_state, trace) is called
Tasks ==
    /\ AtEnd("tasks")
    /\ IF TasksByValue(task.kids)
       THEN /\ cells' = Append(cells, StateOf(top))
            /\ stack' = Append(SetTop([top EXCEPT !.at = "dispatched", !.old_state = StateOf(top)]),
                               Frame("tasks", top.name, Len(cells) + 1, TRUE, StateOf(top), task.kids))
       ELSE /\ cells' = cells
            /\ stack' = Append(SetTop([top EXCEPT !.at = "dispatched", !.old_state = StateOf(top)]),
                               Frame("tasks", top.name, top.sref, FALSE, StateOf(top), task.kids))
    /\ UNCHANGED <<pc, root, callerState, ret, result, m_contexts, log>>

\* `return methods<...>(...)` / `return tasks<...>(...)`: the dispatch returned,
\* the task returns its result
TaskReturn ==
    /\ InTask /\ top.at = "dispatched" /\ ret.set
    /\ ReturnFromTask(m_contexts, <<>>, ret, ret.out)
    /\ UNCHANGED <<pc, root, callerState, cells, result>>

\* null_action::operator(): return make_optional(Plan())
NullAction ==
    /\ pc = "planning" /\ stack # <<>> /\ top.fn = "null_action"
    /\ stack' = Front(stack)
    /\ ret' = Returned(make_optional(<<>>), StateOf(top))
    /\ UNCHANGED <<pc, root, callerState, cells, result, m_contexts, log>>


(***************************************************************************)
(* Domain::methods                                                         *)
(***************************************************************************)
InFn(fn, at) == pc = "planning" /\ stack # <<>> /\ top.fn = fn /\ top.at = at

\* a `return` of the methods/tasks frame on top of the stack
ReturnFromDispatch(cs, opt, out) ==
    /\ cells' = CellsAfterReturn(top, cs)
    /\ stack' = Front(stack)
    /\ ret' = Returned(opt, out)

\* a slip: the alternatives are tried from the last one
MethodsTest_LastFirst ==
    /\ InFn("methods", "call")
    /\ stack' = Append(SetTop([top EXCEPT !.at = "test", !.acts = <<Last(top.acts)>> \o Front(top.acts)]),
                       CallAction(Last(top.acts), top.sref))
    /\ UNCHANGED <<pc, root, callerState, cells, ret, result, m_contexts, log>>

\* auto plan = Action1()(state, trace): the first template argument is called
MethodsTest ==
    /\ InFn("methods", "call")
    /\ stack' = Append(SetTop([top EXCEPT !.at = "test"]), CallAction(Head(top.acts), top.sref))
    /\ UNCHANGED <<pc, root, callerState, cells, ret, result, m_contexts, log>>

\* a slip: a successful alternative does not end the search of the
\* alternatives, the remaining ones are tried as well
MethodsPlan_KeepTrying ==
    /\ InFn("methods", "test") /\ ret.set /\ ret.ok
    /\ IF Len(top.acts) >= 2
       THEN /\ stack' = Append(SetTop([top EXCEPT !.at = "tail"]),
                               Frame("methods", top.name, top.sref, FALSE, top.old_state, Tail(top.acts)))
            /\ ret' = NoRet
            /\ cells' = cells
       ELSE ReturnFromDispatch(cells, ret, ret.out)
    /\ UNCHANGED <<pc, root, callerState, result, m_contexts, log>>

\* if (plan) return plan;
MethodsPlan ==
    /\ InFn("methods", "test") /\ ret.set /\ ret.ok
    /\ ReturnFromDispatch(cells, ret, ret.out)
    /\ UNCHANGED <<pc, root, callerState, result, m_contexts, log>>

\* a slip: methods<Action> gives up without PLANNER_TRACE_FAIL
MethodsFail_Silent ==
    /\ InFn("methods", "test") /\ ret.set /\ ~ret.ok
    /\ Len(top.acts) = 1
    /\ log' = log
    /\ ReturnFromDispatch([cells EXCEPT ![top.sref] = top.old_state], NoPlan, top.old_state)
    /\ UNCHANGED <<pc, root, callerState, result, m_contexts>>

\* a slip: the last alternative's failure is reported without `state = old_state`
MethodsFail_NoRestore ==
    /\ InFn("methods", "test") /\ ret.set /\ ~ret.ok
    /\ Len(top.acts) = 1
    /\ log' = Append(log, FailEvent(m_contexts, 188))
    /\ ReturnFromDispatch(cells, NoPlan, StateOf(top))
    /\ UNCHANGED <<pc, root, callerState, result, m_contexts>>

\* methods<Action>, else: state = old_state; PLANNER_TRACE_FAIL(trace); return optional<Plan>();
MethodsFail ==
    /\ InFn("methods", "test") /\ ret.set /\ ~ret.ok
    /\ Len(top.acts) = 1
    /\ log' = Append(log, FailEvent(m_contexts, 188))
    /\ ReturnFromDispatch([cells EXCEPT ![top.sref] = top.old_state], NoPlan, top.old_state)
    /\ UNCHANGED <<pc, root, callerState, result, m_contexts>>

\* a slip: an alternative that failed is tried a second time before the next one
MethodsNext_RetryOnce ==
    /\ InFn("methods", "test") /\ ret.set /\ ~ret.ok
    /\ Len(top.acts) >= 2
    /\ cells' = [cells EXCEPT ![top.sref] = top.old_state]
    /\ IF top.i = 1
       THEN stack' = Append(SetTop([top EXCEPT !.i = 2]), CallAction(Head(top.acts), top.sref))
       ELSE stack' = Append(SetTop([top EXCEPT !.at = "tail"]),
                            Frame("methods", top.name, top.sref, FALSE, top.old_state, Tail(top.acts)))
    /\ ret' = NoRet
    /\ UNCHANGED <<pc, root, callerState, result, m_contexts, log>>

\* a slip: the failure of the first alternative is the failure of the task
MethodsNext_GiveUp ==
    /\ InFn("methods", "test") /\ ret.set /\ ~ret.ok
    /\ Len(top.acts) >= 2
    /\ ReturnFromDispatch([cells EXCEPT ![top.sref] = top.old_state], NoPlan, top.old_state)
    /\ UNCHANGED <<pc, root, callerState, result, m_contexts, log>>

\* a slip: the next alternative is tried without `state = old_state`
MethodsNext_NoReset ==
    /\ InFn("methods", "test") /\ ret.set /\ ~ret.ok
    /\ Len(top.acts) >= 2
    /\ cells' = cells
    /\ stack' = Append(SetTop([top EXCEPT !.at = "tail"]),
                       Frame("methods", top.name, top.sref, FALSE, top.old_state, Tail(top.acts)))
    /\ ret' = NoRet
    /\ UNCHANGED <<pc, root, callerState, result, m_contexts, log>>

\* methods<Action1, Action2, Actions...>, else: state = old_state;
\* methods<Action2, Actions...>(state, old_state, trace) is called
MethodsNext ==
    /\ InFn("methods", "test") /\ ret.set /\ ~ret.ok
    /\ Len(top.acts) >= 2
    /\ cells' = [cells EXCEPT ![top.sref] = top.old_state]
    /\ stack' = Append(SetTop([top EXCEPT !.at = "tail"]),
                       Frame("methods", top.name, top.sref, FALSE, top.old_state, Tail(top.acts)))
    /\ ret' = NoRet
    /\ UNCHANGED <<pc, root, callerState, result, m_contexts, log>>

\* return methods<Action2, Actions...>(...): the recursion returned
MethodsTail ==
    /\ InFn("methods", "tail") /\ ret.set
    /\ ReturnFromDispatch(cells, ret, ret.out)
    /\ UNCHANGED <<pc, root, callerState, result, m_contexts, log>>

(***************************************************************************)
(* Domain::tasks                                                           *)
(***************************************************************************)
\* auto plan = Action1()(state, trace): the first template argument is called
TasksTest ==
    /\ InFn("tasks", "call")
    /\ stack' = Append(SetTop([top EXCEPT !.at = "test"]), CallAction(Head(top.acts), top.sref))
    /\ UNCHANGED <<pc, root, callerState, cells, ret, result, m_contexts, log>>

\* tasks<Action>: if (plan) return plan;
TasksPlan ==
    /\ InFn("tasks", "test") /\ ret.set /\ ret.ok
    /\ Len(top.acts) = 1
    /\ ReturnFromDispatch(cells, ret, ret.out)
    /\ UNCHANGED <<pc, root, callerState, result, m_contexts, log>>

\* tasks<Action1, Action2, Actions...>: if (plan), tasks<Action2, Actions...>(state,
\* old_state, trace) is called
TasksRest ==
    /\ InFn("tasks", "test") /\ ret.set /\ ret.ok
    /\ Len(top.acts) >= 2
    /\ IF TasksByValue(Tail(top.acts))
       THEN /\ cells' = Append(cells, StateOf(top))
            /\ stack' = Append(SetTop([top EXCEPT !.at = "tail", !.plan = ret.plan, !.headOut = ret.out]),
                               Frame("tasks", top.name, Len(cells) + 1, TRUE, top.old_state, Tail(top.acts)))
       ELSE /\ cells' = cells
            /\ stack' = Append(SetTop([top EXCEPT !.at = "tail", !.plan = ret.plan, !.headOut = ret.out]),
                               Frame("tasks", top.name, top.sref, FALSE, top.old_state, Tail(top.acts)))
    /\ ret' = NoRet
    /\ UNCHANGED <<pc, root, callerState, result, m_contexts, log>>

\* if (tail_plan) { std::copy(...tail_plan... back_inserter(plan.get())); return plan; }
TasksJoin ==
    /\ InFn("tasks", "tail") /\ ret.set /\ ret.ok
    /\ ReturnFromDispatch(cells, make_optional(JoinPlans(top.plan, ret.plan)), ret.out)
    /\ UNCHANGED <<pc, root, callerState, result, m_contexts, log>>

\* a slip: the sequence's failure is reported without `state = old_state`
TasksFail_NoRestore ==
    /\ \/ InFn("tasks", "test") /\ ret.set /\ ~ret.ok
       \/ InFn("tasks", "tail") /\ ret.set /\ ~ret.ok
    /\ log' = Append(log, FailEvent(m_contexts, IF Len(top.acts) = 1 THEN 224 ELSE 246))
    /\ ReturnFromDispatch(cells, NoPlan, StateOf(top))
    /\ UNCHANGED <<pc, root, callerState, result, m_contexts>>

\* PLANNER_TRACE_FAIL(trace); state = old_state; return optional<Plan>();
\* in tasks<Action> when Action failed, in tasks<Action1, Action2, Actions...>
\* when Action1 or the rest failed
TasksFail ==
    /\ \/ InFn("tasks", "test") /\ ret.set /\ ~ret.ok
       \/ InFn("tasks", "tail") /\ ret.set /\ ~ret.ok
    /\ log' = Append(log, FailEvent(m_contexts, IF Len(top.acts) = 1 THEN 224 ELSE 246))
    /\ ReturnFromDispatch([cells EXCEPT ![top.sref] = top.old_state], NoPlan, top.old_state)
    /\ UNCHANGED <<pc, root, callerState, result, m_contexts>>

(***************************************************************************)
(* Specification                                                           *)
(***************************************************************************)
Next ==
    \/ FindPlanCall \/ FindPlanReturn
    \/ Begin \/ Precondition \/ Operation \/ Primitive \/ Methods \/ Tasks
    \/ TaskReturn \/ NullAction
    \/ MethodsTest \/ MethodsPlan \/ MethodsFail \/ MethodsNext \/ MethodsTail
    \/ TasksTest \/ TasksPlan \/ TasksRest \/ TasksJoin \/ TasksFail

Spec == Init /\ [][Next]_vars

\* findPlan is an ordinary sequential call: whenever it has a next step, it takes it
FairSpec == Spec /\ WF_vars(Next)


(***************************************************************************)
(* Vocabulary of the properties                                            *)
(***************************************************************************)
\* the state a task has when it reaches its _methods/_tasks/_primitive: its
\* entry state with its own declared operations applied in order
RECURSIVE ApplyOperations(_, _)
ApplyOperations(body, state) ==
    IF body = <<>> THEN state
    ELSE ApplyOperations(Tail(body),
             IF Head(body).stmt = "operation" THEN Apply(Head(body).id, state) ELSE state)

AfterOwnOperations(name, state) == ApplyOperations(Domain[name].body, state)

\* the frame of the task whose _methods/_tasks the frame at index k belongs to
OwnerOf(k) ==
    stack[CHOOSE j \in 1..k : stack[j].fn = "task" /\ \A m \in (j+1)..k : stack[m].fn # "task"]

\* how many alternatives of the owner's _methods were tried before the one
\* the methods frame f is about to try or is trying
TriedBefore(f) == Len(Domain[f.name].kids) - Len(f.acts)

\* the frames of alternatives that have been entered after an earlier
\* alternative of the same _methods failed
LaterAlternatives ==
    {k \in 2..Len(stack) :
        /\ stack[k].fn = "task" /\ stack[k].at # "call"
        /\ stack[k-1].fn = "methods" /\ TriedBefore(stack[k-1]) >= 1}

\* the task on top of the stack has its dispatch result in hand and is about to return it
Returning(kind) ==
    /\ InTask /\ top.at = "dispatched" /\ ret.set
    /\ task.kind = kind

\* in the log, the pushContext of the task on top of the stack
OpenPush ==
    CHOOSE k \in 1..Len(log) :
        /\ log[k].ev = "push" /\ log[k].depth = TaskDepth(stack)
        /\ \A m \in (k+1)..Len(log) : ~(log[m].ev = "push" /\ log[m].depth = TaskDepth(stack))

\* in the log, the returns (popContext) and entries (pushContext) of the
\* sub-tasks the task on top of the stack has evaluated so far
ChildPops == {k \in (OpenPush+1)..Len(log) : log[k].ev = "pop" /\ log[k].depth = TaskDepth(stack) + 1}
ChildPushes == {k \in (OpenPush+1)..Len(log) : log[k].ev = "push" /\ log[k].depth = TaskDepth(stack) + 1}
Min(S) == CHOOSE x \in S : \A y \in S : x <= y

\* the primitives selected along the successful decomposition path, read off
\* the trace: a task's primitives count when the task returned a plan and
\* every task around it did
RECURSIVE SelectedOnPath(_, _)
SelectedOnPath(events, segs) ==
    IF events = <<>> THEN segs[1]
    ELSE LET e == Head(events)
             n == Len(segs)
         IN  SelectedOnPath(Tail(events),
                 CASE e.ev = "push" -> Append(segs, <<>>)
                   [] e.ev = "primitive" -> [segs EXCEPT ![n] = Append(@, e.name)]
                   [] e.ev = "pop" ->
                        IF e.ok THEN [Front(segs) EXCEPT ![n-1] = @ \o segs[n]]
                        ELSE Front(segs)
                   [] OTHER -> segs)

PrimitiveEvents == {k \in 1..Len(log) : log[k].ev = "primitive"}


(***************************************************************************)
(* Properties                                                              *)
(***************************************************************************)

\* C1, as stated: an alternative tried after earlier alternatives of its
\* _methods failed observes, at its entry, the state the compound task
\* observed at its own entry.
C1_RollbackToTaskEntry ==
    \A k \in LaterAlternatives : stack[k].entry = OwnerOf(k-1).entry

\* C1, amended: an alternative tried after earlier alternatives of its
\* _methods failed observes, at its entry, the state the compound task had
\* when it reached its _methods (its entry state with its own declared
\* operations applied), whatever the failed alternatives and the tasks
\* beneath them changed.
C1_RollbackToDispatchState ==
    \A k \in LaterAlternatives :
        stack[k].entry = AfterOwnOperations(OwnerOf(k-1).name, OwnerOf(k-1).entry)

\* an alternative has just been entered whose failed predecessor returned
\* leaving a state other than the one the alternative observes
C1_Witness ==
    /\ Len(stack) \in LaterAlternatives
    /\ Len(log) >= 2
    /\ Last(log).ev = "push"
    /\ log[Len(log) - 1].ev = "pop" /\ ~log[Len(log) - 1].ok
    /\ log[Len(log) - 1].state # top.entry

\* C2: a Plan findPlan returns is the concatenation, in order, of the
\* primitives selected along the successful decomposition path, and holds no
\* primitive selected in a task that failed or lies inside one that failed.
C2_PlanIsSuccessfulPath ==
    (pc = "done" /\ result.ok) => result.plan = SelectedOnPath(log, << <<>> >>)

\* a search returned a plan of two or more primitives after it had also
\* selected primitives that are not in the plan
C2_Witness ==
    /\ pc = "done" /\ result.ok /\ Len(result.plan) >= 2
    /\ Cardinality(PrimitiveEvents) > Len(result.plan)

\* C3: the alternatives of a _methods are evaluated in declaration order,
\* each from the state the _methods was dispatched on, and when one succeeds
\* the task returns that alternative's Plan, whatever the later ones would do.
C3_FirstSuccessWins ==
    Returning("methods") =>
        \A k \in ChildPops :
            LET nth == Cardinality({m \in ChildPops : m <= k})
            IN  /\ nth <= Len(task.kids)
                /\ log[k].name = task.kids[nth]
                /\ \E m \in ChildPushes :
                      /\ m < k /\ \A n \in ChildPushes : n <= m \/ n > k
                      /\ log[m].state = AfterOwnOperations(top.name, top.entry)
                /\ log[k].ok => (ret.ok /\ ret.plan = log[k].plan)

\* do_something returns have_dinner's plan, while watch_tv, which has no
\* precondition, would succeed as well
C3_Witness ==
    /\ Returning("methods") /\ top.name = "do_something"
    /\ ChildPops # {} /\ log[Min(ChildPops)].ok
    /\ ret.plan # <<"watch_tv">>

\* C4: in a task sequence, the sub-task after Tk is entered in the state
\* the successful evaluation of Tk produced.
C4_StateThreading ==
    \A k \in 3..Len(stack) :
        (/\ stack[k].fn = "task" /\ stack[k].at # "call"
         /\ stack[k-1].fn = "tasks" /\ stack[k-2].fn = "tasks" /\ stack[k-2].at = "tail")
        => stack[k].entry = stack[k-2].headOut

\* C5: when a task sequence succeeds, the state its caller sees is the state
\* its final sub-task produced.
C5_SequenceLeavesFinalState ==
    (Returning("tasks") /\ ret.ok) => StateOf(top) = ret.out

\* C6: when a sub-task of a task sequence fails, the sequence fails, no
\* further sub-task is entered, and the caller's state is the one the
\* sequence was dispatched on.
C6_SequenceFailure ==
    (Returning("tasks") /\ \E k \in ChildPops : ~log[k].ok) =>
        /\ ~ret.ok
        /\ \A k \in ChildPops : ~log[k].ok => \A m \in ChildPushes : m < k
        /\ StateOf(top) = AfterOwnOperations(top.name, top.entry)

\* a sequence fails at its second or a later sub-task after earlier
\* sub-tasks changed the state
C6_Witness ==
    /\ Returning("tasks") /\ ~ret.ok
    /\ Cardinality(ChildPops) >= 2
    /\ \E k \in ChildPops : log[k].ok /\ log[k].state # top.entry

\* C7, as stated: when every alternative of a _methods fails, the task
\* fails, the state is the one at the task's entry, and methods emitted fail.
C7_AllFailRestoresEntry ==
    (/\ Returning("methods")
     /\ \A j \in 1..Len(task.kids) : task.kids[j] # "null_action"
     /\ Cardinality({k \in ChildPops : ~log[k].ok}) = Len(task.kids)) =>
        /\ ~ret.ok
        /\ StateOf(top) = top.entry
        /\ Last(log).ev = "fail" /\ Last(log).line = 188

\* C7, amended: when every alternative of a _methods fails, the task fails,
\* the state is the one the task had when it reached its _methods (its entry
\* state with its own declared operations applied), and methods emitted fail.
C7_AllFailRestoresDispatchState ==
    (/\ Returning("methods")
     /\ \A j \in 1..Len(task.kids) : task.kids[j] # "null_action"
     /\ Cardinality({k \in ChildPops : ~log[k].ok}) = Len(task.kids)) =>
        /\ ~ret.ok
        /\ StateOf(top) = AfterOwnOperations(top.name, top.entry)
        /\ Last(log).ev = "fail" /\ Last(log).line = 188

\* every alternative of a _methods failed and one of them returned leaving
\* a state other than the one the _methods was dispatched on
C7_Witness ==
    /\ Returning("methods") /\ ~ret.ok
    /\ Cardinality({k \in ChildPops : ~log[k].ok}) = Len(task.kids)
    /\ \E k \in ChildPops : log[k].state # AfterOwnOperations(top.name, top.entry)

\* C8: after findPlan the caller's state is what it was before the call,
\* and findPlan returned what the root task returned.
C8_CallerStateUntouched ==
    pc = "done" =>
        /\ callerState = log[1].state
        /\ log[Len(log) - 1].ev = "pop" /\ log[Len(log) - 1].depth = 1
        /\ result = [ok |-> log[Len(log) - 1].ok, plan |-> log[Len(log) - 1].plan]

\* findPlan returned after the search changed its working state
C8_Witness ==
    pc = "done" /\ cells[1] # callerState

\* C9: do_something from {hungry, food_in_fridge, can_cook, cash 30, no
\* dishes} yields [cook_dinner, eat_dinner, wash_dishes], and the state of
\* the search ends with dishes = false and hungry = false.
C9_EndToEnd ==
    (/\ pc = "done" /\ root = "do_something"
     /\ log[1].state = [actor_is_hungry |-> TRUE, actor_can_cook |-> TRUE, actor_cash |-> 30,
                        food_in_fridge |-> TRUE, dishes |-> FALSE]) =>
        /\ result = make_optional(<<"cook_dinner", "eat_dinner", "wash_dishes">>)
        /\ cells[1].dishes = FALSE
        /\ cells[1].actor_is_hungry = FALSE

\* C10: do_something from {hungry, food_in_fridge, cannot cook, cash 30, no
\* dishes}: cook_dinner's precondition fails, the plan is [order_takeout,
\* eat_dinner] with nothing from clean_up, and the state of the search ends
\* with cash = 10.
C10_Fallback ==
    (/\ pc = "done" /\ root = "do_something"
     /\ log[1].state = [actor_is_hungry |-> TRUE, actor_can_cook |-> FALSE, actor_cash |-> 30,
                        food_in_fridge |-> TRUE, dishes |-> FALSE]) =>
        /\ \E k \in 1..Len(log) : log[k].ev = "fail" /\ log[k].task = "cook_dinner" /\ log[k].line = 267
        /\ result = make_optional(<<"order_takeout", "eat_dinner">>)
        /\ cells[1].actor_cash = 10


\* in the log, the fail events and the pushContext / popContext calls
FailEvents == {k \in 1..Len(log) : log[k].ev = "fail"}
PushEvents == {k \in 1..Len(log) : log[k].ev = "push"}
PopEvents == {k \in 1..Len(log) : log[k].ev = "pop"}

\* in the log, the pushContext of the task that was under evaluation at event k
PushOf(k) ==
    CHOOSE j \in 1..k :
        /\ log[j].ev = "push" /\ log[j].depth = log[k].depth
        /\ \A m \in (j+1)..k : ~(log[m].ev = "push" /\ log[m].depth = log[k].depth)

\* the search of do_something from a hungry actor with no cash who cannot cook has returned
TotalFailureScenario ==
    /\ pc = "done" /\ root = "do_something"
    /\ log[1].state.actor_is_hungry /\ log[1].state.actor_cash = 0
    /\ ~log[1].state.actor_can_cook

\* C11, as stated: in the total failure scenario both alternatives of
\* get_dinner fail, have_dinner fails, the plan is [watch_tv], the state is
\* unchanged, and the trace records two failure events.
C11_TotalFailureTwoFails ==
    TotalFailureScenario =>
        /\ \E k \in PopEvents : log[k].name = "cook_dinner" /\ ~log[k].ok
        /\ \E k \in PopEvents : log[k].name = "order_takeout" /\ ~log[k].ok
        /\ \E k \in PopEvents : log[k].name = "have_dinner" /\ ~log[k].ok
        /\ result = make_optional(<<"watch_tv">>)
        /\ cells[1] = log[1].state
        /\ Cardinality(FailEvents) = 2

\* C11, amended: in the total failure scenario both alternatives of
\* get_dinner fail, have_dinner fails, the plan is [watch_tv], the state is
\* unchanged, and the trace records four failure events: the preconditions
\* of cook_dinner and of order_takeout, get_dinner's _methods, and
\* have_dinner's _tasks.
C11_TotalFailureFourFails ==
    TotalFailureScenario =>
        /\ \E k \in PopEvents : log[k].name = "cook_dinner" /\ ~log[k].ok
        /\ \E k \in PopEvents : log[k].name = "order_takeout" /\ ~log[k].ok
        /\ \E k \in PopEvents : log[k].name = "have_dinner" /\ ~log[k].ok
        /\ result = make_optional(<<"watch_tv">>)
        /\ cells[1] = log[1].state
        /\ Cardinality(FailEvents) = 4
        /\ {<<log[k].task, log[k].line>> : k \in FailEvents} =
              {<<"cook_dinner", 267>>, <<"order_takeout", 267>>,
               <<"get_dinner", 188>>, <<"have_dinner", 246>>}

\* the total failure scenario has run and get_dinner was evaluated and failed
C11_Witness ==
    /\ TotalFailureScenario
    /\ \E k \in PopEvents : log[k].name = "get_dinner" /\ ~log[k].ok

\* C12: at every fail event, the innermost entry of StdoutPlannerTrace's
\* contexts is the name and entry state of the task emitting the failure.
C12_FailSeesOwnContext ==
    \A k \in FailEvents :
        /\ log[k].name = log[k].task
        /\ log[k].state = log[PushOf(k)].state

\* C13: pushContext and popContext are balanced: one pushContext per task
\* entered, one popContext per task left on every exit path, never more pops
\* than pushes, and equally many when findPlan has returned.
C13_ContextEventsBalanced ==
    /\ Cardinality(PushEvents) - Cardinality(PopEvents)
          = Cardinality({k \in 1..Len(stack) : stack[k].fn = "task" /\ stack[k].at # "call"})
    /\ \A k \in PopEvents : log[PushOf(k)].name = log[k].name
    /\ pc = "done" => Cardinality(PushEvents) = Cardinality(PopEvents)

\* a search has returned in which tasks left through a failed precondition,
\* through a failed dispatch and through success
C13_Witness ==
    /\ pc = "done"
    /\ \E k \in FailEvents : log[k].line = 267
    /\ \E k \in FailEvents : log[k].line # 267
    /\ \E k \in PopEvents : log[k].ok

\* C14: StdoutPlannerTrace's contexts hold exactly one entry per task under
\* evaluation, in nesting order, and are empty when findPlan has returned.
C14_ContextStackIsCallStack ==
    /\ [k \in 1..Len(m_contexts) |-> m_contexts[k][1]]
          = [k \in 1..Cardinality(PushEvents) - Cardinality(PopEvents) |->
                LET j == CHOOSE j \in 1..Len(stack) :
                            /\ stack[j].fn = "task"
                            /\ TaskDepth(SubSeq(stack, 1, j)) = k
                IN  stack[j].name]
    /\ pc = "done" => m_contexts = <<>>


\* the task on top of the stack is at a _precondition that is false
GuardFails ==
    /\ AtStatement("precondition")
    /\ ~Guard(task.body[top.i].id, StateOf(top))

\* what a failed precondition does in one step: fail event, popContext,
\* failure returned, nothing else touched
GuardFailureStep ==
    /\ Len(log') = Len(log) + 2
    /\ log'[Len(log) + 1].ev = "fail" /\ log'[Len(log) + 1].line = 267
    /\ log'[Len(log) + 2].ev = "pop" /\ log'[Len(log) + 2].name = top.name
    /\ ret'.set /\ ~ret'.ok
    /\ stack' = Front(stack)
    /\ cells' = cells
    \* no primitive event and no sub-task since the task was entered
    /\ Last(log).ev = "push" /\ Last(log).name = top.name
    /\ Last(log).depth = TaskDepth(stack)

\* C15, as stated: a false precondition makes the task emit fail, pop its
\* context and return failure, with none of its declared operations
\* applied, no primitive event and no sub-task, the state as at its entry.
C15_GuardFailureLeavesEntryState ==
    [][GuardFails =>
          /\ GuardFailureStep
          /\ \A j \in 1..(top.i - 1) : task.body[j].stmt # "operation"
          /\ StateOf(top) = top.entry]_vars

\* C15, amended: a false precondition makes the task emit fail, pop its
\* context and return failure, with no operation declared after that
\* precondition applied, no primitive event and no sub-task; the state is
\* the entry state with the operations declared before that precondition
\* applied (the entry state when, as in DinnerDomain, there are none).
C15_GuardFailureStopsTask ==
    [][GuardFails =>
          /\ GuardFailureStep
          /\ StateOf(top) = ApplyOperations(SubSeq(task.body, 1, top.i - 1), top.entry)
          /\ ((\A j \in 1..(top.i - 1) : task.body[j].stmt # "operation")
                 => StateOf(top) = top.entry)]_vars

\* a task that declares operations has just returned through a failed precondition
C15_Witness ==
    /\ Len(log) >= 3 /\ ret.set /\ ~ret.ok
    /\ Last(log).ev = "pop" /\ log[Len(log) - 1].ev = "fail" /\ log[Len(log) - 1].line = 267
    /\ \E j \in 1..Len(Domain[Last(log).name].body) :
          Domain[Last(log).name].body[j].stmt = "operation"

\* C16: when a task applied its own operations and its _methods or _tasks
\* then fails, the state it leaves is the one it had after those operations,
\* at the dispatch; its own operations are not rolled back.
C16_OwnOperationsStay ==
    ((Returning("methods") \/ Returning("tasks")) /\ ~ret.ok) =>
        /\ StateOf(top) = top.old_state
        /\ StateOf(top) = AfterOwnOperations(top.name, top.entry)

\* a task whose own operation changed the state returns the failure of its dispatch
C16_Witness ==
    /\ (Returning("methods") \/ Returning("tasks")) /\ ~ret.ok
    /\ \E j \in 1..Len(task.body) : task.body[j].stmt = "operation"
    /\ StateOf(top) # top.entry

\* C17: a task sequence that fails emits exactly one fail event of its own,
\* whichever sub-task failed and however many sub-tasks it has.
C17_SequenceFailsOnce ==
    (Returning("tasks") /\ ~ret.ok) =>
        Cardinality({k \in (OpenPush+1)..Len(log) :
                        /\ log[k].ev = "fail" /\ log[k].depth = TaskDepth(stack)
                        /\ log[k].line \in {224, 246}}) = 1

\* C18: in one evaluation of a _methods the alternatives are entered in
\* declaration order, each at most once, and nothing happens in the trace
\* after an alternative has succeeded.
C18_NoRetryShortCircuit ==
    Returning("methods") =>
        /\ Cardinality(ChildPushes) <= Len(task.kids)
        /\ \A k \in ChildPushes :
              log[k].name = task.kids[Cardinality({m \in ChildPushes : m <= k})]
        /\ \A k \in ChildPops : log[k].ok => k = Len(log)

\* a _methods of three alternatives returns the plan of its second one
C18_Witness ==
    /\ Returning("methods") /\ ret.ok
    /\ Len(task.kids) = 3 /\ Cardinality(ChildPushes) = 2


\* the task graph below a task: its nesting depth and the number of task
\* evaluations one evaluation of it can contain (null_action is not a task)
RECURSIVE MaxOver(_, _, _)
MaxOver(F(_), names, k) ==
    IF k > Len(names) THEN 0
    ELSE LET rest == MaxOver(F, names, k + 1)
         IN  IF F(names[k]) > rest THEN F(names[k]) ELSE rest

RECURSIVE SumOver(_, _, _)
SumOver(F(_), names, k) ==
    IF k > Len(names) THEN 0 ELSE F(names[k]) + SumOver(F, names, k + 1)

RECURSIVE NestingDepth(_)
NestingDepth(name) ==
    IF name = "null_action" THEN 0
    ELSE 1 + MaxOver(NestingDepth, Domain[name].kids, 1)

RECURSIVE Evaluations(_)
Evaluations(name) ==
    IF name = "null_action" THEN 0
    ELSE 1 + SumOver(Evaluations, Domain[name].kids, 1)

\* C19: on these (acyclic) domains every findPlan call returns, with a Plan
\* or with failure; it never has more tasks under evaluation than the task
\* graph below the root is deep, nor evaluates more tasks than that graph
\* has paths from the root.
C19_Terminates ==
    /\ <>(pc = "done")
    /\ [](/\ TaskDepth(stack) <= NestingDepth(root)
          /\ Cardinality(PushEvents) <= Evaluations(root))

\* a search is as deep in the task graph as the graph below its root is
\* deep, four tasks under evaluation
C19_Witness ==
    /\ pc = "planning"
    /\ TaskDepth(stack) = NestingDepth(root) /\ NestingDepth(root) >= 4

\* C20: on DinnerDomain, findPlan with root do_something returns a Plan that
\* is not empty for every initial state, and the Plan is [watch_tv] whenever
\* have_dinner failed.
C20_DoSomethingAlwaysPlans ==
    (pc = "done" /\ root = "do_something") =>
        /\ result.ok /\ result.plan # <<>>
        /\ (\E k \in PopEvents : log[k].name = "have_dinner" /\ ~log[k].ok)
              => result.plan = <<"watch_tv">>

\* do_something returned after get_dinner, and with it have_dinner, failed,
\* from an actor with a debt
C20_Witness ==
    /\ pc = "done" /\ root = "do_something"
    /\ log[1].state.actor_cash < 0
    /\ \E k \in PopEvents : log[k].name = "get_dinner" /\ ~log[k].ok

====
